---- MODULE Spec2Model ----
(***************************************************************************)
(* Model of browser_use/browser/browser.py: the Browser class (the         *)
(* "Instance Acquirer"), its configuration, the public operations          *)
(* get_drission_browser ("acquire") and close, and the internal            *)
(* acquisition procedure _setup_browser with its four strategies.          *)
(*                                                                         *)
(* The automation library (DrissionPage), the HTTP probe (requests.get)    *)
(* and the process spawn (subprocess.Popen) are black boxes: each call's   *)
(* outcome is a nondeterministic choice over what the call can produce.    *)
(*                                                                         *)
(* asyncio is cooperative: a coroutine runs without interruption up to its *)
(* next suspension.  The only suspension in the file is asyncio.sleep(1)   *)
(* in the polling loop of _setup_browser_with_instance, so acquire and     *)
(* close are single steps and _setup_browser is cut at the sleep.          *)
(*                                                                         *)
(* Specifications: Spec (acquire and close), SpecFinal (plus __del__),     *)
(* SpecSetup (_setup_browser, its cancellation, and close), SpecPair and   *)
(* SpecOverlap (two concurrent reuse-or-launch acquisitions on two         *)
(* Acquirers or on one, with port 9222 as their shared environment).       *)
(***************************************************************************)
EXTENDS Integers, Sequences, FiniteSets, TLC

\* ---------------------------------------------------------------- bounds
\* Number of Handles (DrissionPage objects) one Acquirer obtains in a run.
MaxHandles == 3

\* ------------------------------------------------------------- constants
\* range(10) of the readiness-polling loop.
PollLimit == 10

\* Python's None for the optional string fields of BrowserConfig.
NoneStr == "<None>"

\* self.drission = None
NoHandle == 0

\* 'http://localhost:9222', the endpoint of the local attach.
LocalEndpoint == "http://localhost:9222"

\* ------------------------------------------------------- BrowserConfig
BrowserConfig ==
    [ headless             : BOOLEAN,
      disable_security     : BOOLEAN,
      extra_chromium_args  : { <<>>, <<"--extra">> },
      chrome_instance_path : { NoneStr, "/opt/chrome" },
      wss_url              : { NoneStr, "wss://remote" },
      cdp_url              : { NoneStr, "http://remote:9222" },
      proxy                : { NoneStr, "http://proxy:8080" },
      keep_alive           : BOOLEAN ]

\* Truthiness of an optional string field (if self.config.cdp_url: ...).
IsSet(s) == s # NoneStr

\* Browser.__init__: the security arguments kept on the object.
disable_security_args(cfg) ==
    IF cfg.disable_security
    THEN << "--disable-web-security",
            "--disable-site-isolation-trials",
            "--disable-features=IsolateOrigins,site-per-process" >>
    ELSE << >>

\* Variant: the flag is added without looking at the configuration.
headless_args_always(cfg) == << "--headless" >>

\* options.add_argument('--headless') when config.headless.
headless_args(cfg) == IF cfg.headless THEN << "--headless" >> ELSE << >>

\* Browser._init: the ChromeOptions it assembles.
init_args(cfg) ==
    headless_args(cfg) \o cfg.extra_chromium_args \o disable_security_args(cfg)

\* Browser._setup_standard_browser: the fixed baseline list.
baseline_args ==
    << "--no-sandbox",
       "--disable-blink-features=AutomationControlled",
       "--disable-infobars",
       "--disable-background-timer-throttling",
       "--disable-popup-blocking",
       "--disable-backgrounding-occluded-windows",
       "--disable-renderer-backgrounding",
       "--disable-window-activation",
       "--disable-focus-on-load",
       "--no-first-run",
       "--no-default-browser-check",
       "--no-startup-window",
       "--window-position=0,0" >>

\* Browser._setup_standard_browser: the ChromeOptions it assembles.
standard_args(cfg) ==
    headless_args(cfg) \o baseline_args \o disable_security_args(cfg)
        \o cfg.extra_chromium_args
        \o (IF IsSet(cfg.proxy) THEN << "--proxy-server=" \o cfg.proxy >> ELSE << >>)

\* subprocess.Popen argv of _setup_browser_with_instance.
spawn_argv(cfg) ==
    << cfg.chrome_instance_path, "--remote-debugging-port=9222" >>
        \o cfg.extra_chromium_args

\* Browser._setup_browser: the if/elif chain.
select_mode(cfg) ==
    IF IsSet(cfg.cdp_url) THEN "cdp"
    ELSE IF IsSet(cfg.wss_url) THEN "wss"
    ELSE IF IsSet(cfg.chrome_instance_path) THEN "instance"
    ELSE "standard"

\* ------------------------------------------------------ the black boxes
\* requests.get(..., timeout=2): HTTP 200, another status, a
\* requests.ConnectionError (refused; ConnectTimeout is one too), or a
\* requests.ReadTimeout, which is a Timeout but not a ConnectionError.
ProbeOutcomes == { "ok200", "status", "refused", "timeout" }

\* if response.status_code == 200
probe_success(r) == r = "ok200"

\* except requests.ConnectionError
probe_caught(r) == r = "refused"

\* The probe call raises (no response object is returned).
probe_raises(r) == r \in { "refused", "timeout" }

\* The exception of a probe leaves _setup_browser_with_instance.
probe_escapes(r) == probe_raises(r) /\ ~probe_caught(r)

\* DrissionPage(...): a Handle, an error of the library, or a
\* requests.ConnectionError raised from inside the library.
AttachOutcomes == { "ok", "error", "connection_error" }

\* The exception an unsuccessful DrissionPage(...) call raises.
attach_error(o) == IF o = "connection_error" THEN "ConnectionError" ELSE "LibraryError"

\* self.drission.close(): returns, or raises an Exception.
TerminateOutcomes == { "ok", "raise" }

\* ----------------------------------------------------------------- state
VARIABLES
    config,     \* self.config, fixed at construction
    drission,   \* self.drission: NoHandle or the index of a Handle
    handles,    \* every Handle obtained so far, with the state of its instance
    last,       \* observation of the last acquire()/close() call
    setup,      \* the _setup_browser call in progress or last finished
    fin,        \* the finalisation (__del__) of the Browser object
    port,       \* what listens on localhost:9222
    env0,       \* what listened there when the acquisitions began
    owner,      \* for each concurrent acquisition, the Acquirer it runs on
    tasks,      \* the concurrent acquisitions
    held        \* self.drission of each Acquirer of the concurrent acquisitions

\* The state of the concurrent acquisitions and their environment.
conc == << port, env0, owner, tasks, held >>

vars == << config, drission, handles, last, setup, fin, conc >>

\* A Handle and the instance behind it.  released: how close() let go of it;
\* terms: the termination calls made on it.
Handle(how) == [ how |-> how, live |-> TRUE, released |-> "no", terms |-> 0 ]

\* What one call did to the outside world.
NoEffects ==
    [ probes |-> 0, spawns |-> 0, connects |-> << >>, launches |-> << >>, terms |-> 0 ]

\* No acquire()/close() call observed yet.
NoCall ==
    [ op |-> "none", prev |-> "none", pre |-> NoHandle, ret |-> NoHandle,
      err |-> "none", n0 |-> 0, fx |-> NoEffects ]

Observe(op, pre, ret, err, fx) ==
    [ op |-> op, prev |-> last.op, pre |-> pre, ret |-> ret, err |-> err,
      n0 |-> Len(handles), fx |-> fx ]

\* No _setup_browser call made yet.
NoSetup ==
    [ pc |-> "idle", mode |-> "none", pre |-> NoHandle, ret |-> NoHandle,
      err |-> "none", first |-> "none", lastp |-> "none", fails |-> 0,
      polls |-> 0, sleeps |-> 0, argv |-> << >>, order |-> << >>,
      lib |-> "none", after |-> "nocall", n0 |-> 0, fx |-> NoEffects ]

\* The object is referenced; __del__ has not run.
NotFinalized ==
    [ pc |-> "alive", loop |-> FALSE, held |-> NoHandle, scheduled |-> FALSE,
      ran |-> FALSE, err |-> "none" ]

\* The concurrent acquisitions: two tasks.
Tasks == { 1, 2 }

\* An acquisition not started yet.
NoTask ==
    [ pc |-> "idle", overlap |-> FALSE, probes |-> 0, polls |-> 0, spawns |-> 0,
      ret |-> NoHandle, err |-> "none" ]

\* Two Browser objects (own == <<1, 2>>) or one (own == <<1, 1>>), on a
\* host where a browser already answers on port 9222 or where nothing does.
InitConc(own) ==
    /\ port \in { "free", "ready" }
    /\ env0 = port
    /\ owner = own
    /\ tasks = [ t \in Tasks |-> NoTask ]
    /\ held = [ a \in { own[t] : t \in Tasks } |-> NoHandle ]

\* One Browser object after __init__.
InitBrowser ==
    /\ config \in BrowserConfig
    /\ drission = NoHandle
    /\ handles = << >>
    /\ last = NoCall
    /\ setup = NoSetup
    /\ fin = NotFinalized

Init ==
    /\ InitBrowser
    /\ InitConc(<< 1, 2 >>)
    /\ port = "free"

\* ------------------------------------------------- get_drission_browser
\* Variant: the guard is lost and every call initialises a browser.
acquire_reuses_never(d) == FALSE

\* "if self.drission is None: return await self._init()" -- the other arm.
acquire_reuses(d) == d # NoHandle

\* Browser._init: one DrissionPage(options=options) call; its exception,
\* if any, leaves get_drission_browser unmodified.
init_browser(o) ==
    LET fx == [ NoEffects EXCEPT !.launches = << init_args(config) >> ]
        id == Len(handles) + 1
    IN  IF o = "ok"
        THEN /\ handles' = Append(handles, Handle("launch"))
             /\ drission' = id
             /\ last' = Observe("acquire", drission, id, "none", fx)
        ELSE /\ UNCHANGED << handles, drission >>
             /\ last' = Observe("acquire", drission, NoHandle, attach_error(o), fx)

\* Browser.get_drission_browser
Acquire ==
    /\ fin.pc = "alive"
    /\ IF acquire_reuses(drission)
       THEN /\ last' = Observe("acquire", drission, drission, "none", NoEffects)
            /\ UNCHANGED << handles, drission >>
       ELSE /\ Len(handles) < MaxHandles
            /\ \E o \in AttachOutcomes : init_browser(o)
    /\ UNCHANGED << config, setup, fin, conc >>

\* ------------------------------------------------------------ close
\* Variant: the test of the keep-alive flag is inverted.
close_terminates_inverted(cfg, d) == cfg.keep_alive /\ d # NoHandle

\* Variant: the keep-alive flag is not consulted.
close_terminates_always(cfg, d) == d # NoHandle

\* "if not self.config._force_keep_browser_alive: if self.drission:"
close_terminates(cfg, d) == ~cfg.keep_alive /\ d # NoHandle

\* "except Exception as e": the handler takes what drission.close() raises.
close_catches(t) == t = "raise"

\* Variant: no finally clause, the reference survives.
close_finally_keeps(d) == d

\* "finally: self.drission = None"
close_finally(d) == NoHandle

\* The body of Browser.close.
close_call ==
    \E t \in TerminateOutcomes, stays \in BOOLEAN :
        LET d      == drission
            call   == close_terminates(config, d)
            raised == call /\ t = "raise"
            fx     == [ NoEffects EXCEPT !.terms = IF call THEN 1 ELSE 0 ]
            err    == IF raised /\ ~close_catches(t) THEN "TeardownError" ELSE "none"
        IN  /\ (~call => t = "ok" /\ stays)
            /\ (call /\ ~raised => ~stays)
            /\ handles' =
                  IF d = NoHandle THEN handles
                  ELSE IF ~call
                       THEN [ handles EXCEPT ![d].released = "kept" ]
                  ELSE IF raised
                       THEN [ handles EXCEPT ![d].released = "closefail",
                                             ![d].live = stays,
                                             ![d].terms = @ + 1 ]
                  ELSE [ handles EXCEPT ![d].released = "closed",
                                        ![d].live = FALSE,
                                        ![d].terms = @ + 1 ]
            /\ drission' = IF call /\ ~raised THEN NoHandle ELSE close_finally(d)
            /\ last' = Observe("close", d, NoHandle, err, fx)
            /\ UNCHANGED << config, setup, conc >>

\* Browser.close, called by the user of the object.
Close ==
    /\ fin.pc = "alive"
    /\ close_call
    /\ UNCHANGED fin

\* The public interface: acquire and close calls on one Acquirer.
Next == Acquire \/ Close

Spec == Init /\ [][Next]_vars

\* ------------------------------------------------------------ __del__
\* asyncio.get_running_loop() raises RuntimeError when the finalising thread
\* runs no event loop; otherwise it returns that (running) loop.
get_running_loop_raises(running) == ~running

\* "except Exception as e": the handler of __del__ takes the RuntimeError.
del_catches(e) == e = "RuntimeError"

\* Browser.__del__, run by the garbage collector when the last reference to
\* the object is gone, in a thread that runs an event loop or in one that
\* does not.  The else arm (asyncio.run) needs a loop that was returned by
\* get_running_loop and is not running: there is none.
Finalize ==
    /\ fin.pc = "alive"
    /\ \E running \in BOOLEAN :
          LET raised == drission # NoHandle /\ get_running_loop_raises(running)
              err    == IF raised /\ ~del_catches("RuntimeError")
                        THEN "RuntimeError" ELSE "none"
          IN  fin' = [ pc |-> "finalized", loop |-> running, held |-> drission,
                       scheduled |-> drission # NoHandle /\ ~raised,
                       ran |-> FALSE, err |-> err ]
    /\ UNCHANGED << config, drission, handles, last, setup, conc >>

\* The task made by loop.create_task(self.close()) runs.
FinalClose ==
    /\ fin.scheduled
    /\ close_call
    /\ fin' = [ fin EXCEPT !.scheduled = FALSE, !.ran = TRUE ]

\* acquire and close calls on one Acquirer, which is then dropped.
NextFinal == Acquire \/ Close \/ Finalize \/ FinalClose

SpecFinal == Init /\ [][NextFinal]_vars

\* ------------------------------------------------------- _setup_browser
\* One more event of the call in progress.
Did(s, ev) == [ s EXCEPT !.order = Append(@, ev) ]

\* A requests.get of the version endpoint with outcome r.
Probed(s, r) ==
    [ Did(s, "probe") EXCEPT
        !.fx.probes = @ + 1,
        !.first = IF s.fx.probes = 0 THEN r ELSE @,
        !.lastp = r,
        !.fails = IF probe_success(r) THEN @ ELSE @ + 1 ]

\* A DrissionPage(url=url) call.
Connected(s, url) == [ Did(s, "attach") EXCEPT !.fx.connects = Append(@, url) ]

\* A DrissionPage(options=...) call.
Launched(s, args) == [ Did(s, "launch") EXCEPT !.fx.launches = Append(@, args) ]

\* The call returns the new Handle, stored in self.drission.
Return(s, how) ==
    /\ handles' = Append(handles, Handle(how))
    /\ drission' = Len(handles) + 1
    /\ setup' = [ s EXCEPT !.pc = "done", !.ret = Len(handles) + 1, !.err = "none" ]

\* Variant: self.drission is assigned before the connection is known to
\* work, so a failed call leaves a half-built Handle behind.
Raise_stale(s, err) ==
    /\ handles' = Append(handles, [ Handle("half-built") EXCEPT !.live = FALSE ])
    /\ drission' = Len(handles) + 1
    /\ setup' = [ s EXCEPT !.pc = "done", !.ret = NoHandle, !.err = err ]

\* The call raises err; "except Exception: logger.error(...); raise" of
\* _setup_browser passes it on as it is.
Raise(s, err) ==
    /\ UNCHANGED << handles, drission >>
    /\ setup' = [ s EXCEPT !.pc = "done", !.ret = NoHandle, !.err = err ]

\* The DrissionPage(...) call just made raised attach_error(o).
Failed(s, o) == [ s EXCEPT !.lib = attach_error(o) ]

\* _setup_cdp, _setup_wss: one connect; _setup_standard_browser: one launch.
Direct(s, how, o) ==
    IF o = "ok" THEN Return(s, how) ELSE Raise(Failed(s, o), attach_error(o))

\* The final attach: "except Exception" replaces whatever it raises by the
\* RuntimeError that asks to close all Chrome instances.
final_attach(s, o) ==
    IF o = "ok"
    THEN Return(Connected(s, LocalEndpoint), "local")
    ELSE Raise(Failed(Connected(s, LocalEndpoint), o), "LaunchConflictError")

\* "for _ in range(10)" has iterations left.
poll_again(n) == n < PollLimit

\* One iteration of the polling loop, up to its asyncio.sleep(1), or up to
\* the end of the call when the probe answers 200 or its exception escapes.
poll_once(s) ==
    \E r \in ProbeOutcomes, o \in AttachOutcomes :
        LET p == [ Probed(s, r) EXCEPT !.polls = @ + 1 ]
        IN  IF ~probe_raises(r) /\ probe_success(r)
            THEN final_attach(p, o)
            ELSE /\ o = "ok"
                 /\ IF probe_escapes(r)
                    THEN Raise(p, "Timeout")
                    ELSE /\ setup' = [ Did(p, "sleep") EXCEPT !.pc = "sleep", !.sleeps = @ + 1 ]
                         /\ UNCHANGED << handles, drission >>

\* subprocess.Popen(...) of the configured executable (which starts the
\* child), then the first iteration of the polling loop.
spawn_and_poll(s) ==
    poll_once([ Did(s, "spawn") EXCEPT !.fx.spawns = @ + 1, !.argv = spawn_argv(config) ])

\* The attach of the reuse branch sits inside "try: ... except
\* requests.ConnectionError": that handler takes its exception too.
reuse_attach_caught(o) == o = "connection_error"

\* _setup_browser_with_instance up to its first suspension.
setup_browser_with_instance(s) ==
    \E r \in ProbeOutcomes, o \in AttachOutcomes :
        LET p == Probed(s, r)
        IN  IF ~probe_raises(r) /\ probe_success(r)
            THEN LET c == Connected(p, LocalEndpoint)
                 IN  IF o = "ok" THEN Return(c, "local")
                     ELSE IF reuse_attach_caught(o) THEN spawn_and_poll(Failed(c, o))
                     ELSE Raise(Failed(c, o), attach_error(o))
            ELSE /\ o = "ok"
                 /\ IF probe_escapes(r)
                    THEN Raise(p, "Timeout")
                    ELSE spawn_and_poll(p)

\* How the call before this one ended, as far as a retry is concerned.
Outcome(s) ==
    IF s.pc = "idle" THEN "nocall"
    ELSE IF s.err = "none" THEN "returned"
    ELSE IF s.err = "CancelledError" THEN "cancelled"
    ELSE "raised"

\* A call of Browser._setup_browser, up to its first suspension.
SetupCall ==
    /\ setup.pc # "sleep"
    /\ Len(handles) < MaxHandles
    /\ LET s == [ NoSetup EXCEPT !.pc = "run", !.mode = select_mode(config),
                                 !.pre = drission, !.after = Outcome(setup),
                                 !.n0 = Len(handles) ]
       IN  CASE s.mode = "cdp" ->
                  \E o \in AttachOutcomes :
                      Direct(Connected(s, config.cdp_url), "cdp", o)
             [] s.mode = "wss" ->
                  \E o \in AttachOutcomes :
                      Direct(Connected(s, config.wss_url), "wss", o)
             [] s.mode = "instance" -> setup_browser_with_instance(s)
             [] OTHER ->
                  \E o \in AttachOutcomes :
                      Direct(Launched(s, standard_args(config)), "launch", o)
    /\ UNCHANGED << config, last, fin, conc >>

\* asyncio.sleep(1) returns: the next iteration of the loop, or, after the
\* last one, the final attach.
SetupWake ==
    /\ setup.pc = "sleep"
    /\ Len(handles) < MaxHandles
    /\ IF poll_again(setup.polls)
       THEN poll_once(setup)
       ELSE \E o \in AttachOutcomes : final_attach(setup, o)
    /\ UNCHANGED << config, last, fin, conc >>

\* Variant: a blanket handler ends the loop and the attach goes ahead.
cancelled_attaches(s) == final_attach(Did(s, "cancel"), "ok")

\* asyncio.CancelledError raised at "await asyncio.sleep(1)": a
\* BaseException, so neither "except requests.ConnectionError" nor the
\* "except Exception" of _setup_browser takes it; it leaves the call.
cancelled(s) == Raise(Did(s, "cancel"), "CancelledError")

\* The task running _setup_browser is cancelled (or timed out by
\* asyncio.wait_for) while it is suspended in the sleep.
SetupCancel ==
    /\ setup.pc = "sleep"
    /\ Len(handles) < MaxHandles
    /\ cancelled(setup)
    /\ UNCHANGED << config, last, fin, conc >>

\* The acquisition procedure and close, called on one Acquirer.  Acquire is
\* left to Spec: it never suspends and never enters _setup_browser, and its
\* interleavings with the polling loop multiply the state space tenfold.
NextSetup == SetupCall \/ SetupWake \/ SetupCancel \/ Close

\* headless, disable_security and proxy are read by _setup_standard_browser
\* only: for the other three strategies they stay at one value.
InitSetup ==
    /\ Init
    /\ select_mode(config) # "standard" =>
          ~config.headless /\ config.disable_security /\ ~IsSet(config.proxy)

SpecSetup == InitSetup /\ [][NextSetup]_vars

\* ------------------------------- concurrent reuse-or-launch acquisitions
\* Two coroutines run _setup_browser_with_instance, on two Browser objects
\* or on the same one, on one host.  Port 9222 is the environment they
\* share: nothing listens ("free"), a spawned browser has not opened it yet
\* ("starting"), or a browser answers on it ("ready").

\* requests.get('http://localhost:9222/json/version'): a listening browser
\* answers 200, a closed port refuses the connection.
probe_of(p) == IF p = "ready" THEN "ok200" ELSE "refused"

\* DrissionPage(url='http://localhost:9222') needs the browser to answer.
attach_of(p) == IF p = "ready" THEN "ok" ELSE "error"

\* subprocess.Popen([path, '--remote-debugging-port=9222', ...]): the child
\* takes the port if it is free.
spawned(p) == IF p = "free" THEN "starting" ELSE p

\* The next DrissionPage object.
NextId == Cardinality({ t \in Tasks : tasks[t].ret # NoHandle }) + 1

\* Variant: a guard keeps the Handle that is already stored.
store_first(h, a, id) == IF h[a] = NoHandle THEN [ h EXCEPT ![a] = id ] ELSE h

\* "self.drission = DrissionPage(url='http://localhost:9222')"
store(h, a, id) == [ h EXCEPT ![a] = id ]

\* The attach of task t, whose record so far is s, with the port in state p.
task_attach(t, s, p) ==
    IF attach_of(p) = "ok"
    THEN /\ tasks' = [ tasks EXCEPT ![t] = [ s EXCEPT !.pc = "done", !.ret = NextId ] ]
         /\ held' = store(held, owner[t], NextId)
    ELSE /\ tasks' = [ tasks EXCEPT ![t] =
                         [ s EXCEPT !.pc = "done", !.err = "LaunchConflictError" ] ]
         /\ UNCHANGED held

\* One iteration of the polling loop of task t.
task_poll(t, s, p) ==
    LET q == [ s EXCEPT !.probes = @ + 1, !.polls = @ + 1 ]
    IN  IF probe_success(probe_of(p))
        THEN task_attach(t, q, p)
        ELSE /\ tasks' = [ tasks EXCEPT ![t] = [ q EXCEPT !.pc = "sleep" ] ]
             /\ UNCHANGED held

\* Task t calls _setup_browser_with_instance: it runs to the return of the
\* reuse branch or to the first sleep.
TaskCall(t) ==
    /\ tasks[t].pc = "idle"
    /\ LET s == [ NoTask EXCEPT
                   !.pc = "run", !.probes = 1,
                   !.overlap = \E u \in Tasks \ { t } :
                                  owner[u] = owner[t] /\ tasks[u].pc = "sleep" ]
       IN  IF probe_success(probe_of(port))
           THEN /\ task_attach(t, s, port)
                /\ UNCHANGED port
           ELSE /\ port' = spawned(port)
                /\ task_poll(t, [ s EXCEPT !.spawns = 1 ], spawned(port))
    /\ UNCHANGED << config, drission, handles, last, setup, fin, env0, owner >>

\* The sleep of task t returns.
TaskWake(t) ==
    /\ tasks[t].pc = "sleep"
    /\ IF poll_again(tasks[t].polls)
       THEN task_poll(t, tasks[t], port)
       ELSE task_attach(t, tasks[t], port)
    /\ UNCHANGED << config, drission, handles, last, setup, fin, port, env0, owner >>

\* The spawned browser opens its debugging port.
PortReady ==
    /\ port = "starting"
    /\ port' = "ready"
    /\ UNCHANGED << config, drission, handles, last, setup, fin, env0, owner, tasks, held >>

NextConc == (\E t \in Tasks : TaskCall(t) \/ TaskWake(t)) \/ PortReady

\* Configurations that select reuse-or-launch.
InitInstance ==
    /\ InitBrowser
    /\ select_mode(config) = "instance"
    /\ ~config.headless /\ config.disable_security /\ ~IsSet(config.proxy)

\* Two independent Acquirers, one acquisition each.
InitPair ==
    /\ InitInstance
    /\ InitConc(<< 1, 2 >>)

SpecPair == InitPair /\ [][NextConc]_vars

\* Two acquisitions on the same Acquirer.
InitOverlap ==
    /\ InitInstance
    /\ InitConc(<< 1, 1 >>)

SpecOverlap == InitOverlap /\ [][NextConc]_vars

\* ====================================================================
\* Properties of the public interface (checked under Spec)
\* ====================================================================

\* The last call was acquire() on an Acquirer that held a Handle.
AcquireOnHeld == last.op = "acquire" /\ last.pre # NoHandle

\* The last call was acquire() on an Acquirer that held no Handle.
AcquireOnEmpty == last.op = "acquire" /\ last.pre = NoHandle

\* The instances obtained so far that are still running.
LiveHandles == { i \in DOMAIN handles : handles[i].live }

\* C1: acquire on an Acquirer that holds a Handle returns that Handle and
\* does nothing else: no probe, spawn, connect or launch, no new Handle, and
\* the stored Handle is the one held before.
C1_AcquireIdempotent ==
    AcquireOnHeld =>
        /\ last.ret = last.pre
        /\ last.err = "none"
        /\ last.fx = NoEffects
        /\ drission = last.pre
        /\ Len(handles) = last.n0

\* C1 witness: a second acquire right after a successful first one.
C1_Witness ==
    /\ AcquireOnHeld
    /\ last.prev = "acquire"
    /\ last.ret = drission

\* C2 (as claimed): with a CDP endpoint configured, acquire on an Acquirer
\* without a Handle makes exactly one connect call, to that endpoint, and no
\* probe, spawn or launch.
C2_CdpConnectOnly ==
    (AcquireOnEmpty /\ IsSet(config.cdp_url)) =>
        /\ last.fx.connects = << config.cdp_url >>
        /\ last.fx.probes = 0
        /\ last.fx.spawns = 0
        /\ last.fx.launches = << >>

\* The strategy the claimed priority order picks for a configuration.
C3_Priority(cfg) ==
    IF IsSet(cfg.cdp_url) THEN "cdp"
    ELSE IF IsSet(cfg.wss_url) THEN "wss"
    ELSE IF IsSet(cfg.chrome_instance_path) THEN "instance"
    ELSE "standard"

\* C3 (as claimed): acquire uses the one strategy of the priority order:
\* a single connect to the CDP endpoint, else a single connect to the WSS
\* endpoint, else reuse-or-launch (which starts with a probe and launches
\* nothing through the library), else a single fresh launch.
C3_PriorityOrder ==
    AcquireOnEmpty =>
        LET m == C3_Priority(config) IN
        /\ m = "cdp" =>
              last.fx.connects = << config.cdp_url >> /\ last.fx.launches = << >>
        /\ m = "wss" =>
              last.fx.connects = << config.wss_url >> /\ last.fx.launches = << >>
        /\ m = "instance" =>
              last.fx.probes >= 1 /\ last.fx.launches = << >>
        /\ m = "standard" =>
              Len(last.fx.launches) = 1 /\ last.fx.connects = << >>
                  /\ last.fx.probes = 0 /\ last.fx.spawns = 0

\* C4 (as claimed): at most one instance obtained by the Acquirer is live.
C4_AtMostOneLive == Cardinality(LiveHandles) <= 1

\* C4 (amended): every live instance other than the one the Acquirer holds
\* was let go by a close() that made no termination call (keep-alive) or
\* whose termination call failed; so without keep-alive and without a
\* failed termination at most one instance is live.
C4_OnlyReleasedStayLive ==
    /\ \A i \in LiveHandles :
          i # drission => handles[i].released \in { "kept", "closefail" }
    /\ ( /\ ~config.keep_alive
         /\ \A i \in DOMAIN handles : handles[i].released # "closefail" )
          => Cardinality(LiveHandles) <= 1

\* C4 witness: a new instance is held while an earlier one still runs.
C4_Witness ==
    /\ drission # NoHandle
    /\ handles[drission].live
    /\ \E i \in LiveHandles : i # drission

\* C5: close() returns without raising and leaves no Handle, whatever the
\* state before and whatever the termination call did.
C5_CloseNeverRaises ==
    last.op = "close" => last.err = "none" /\ drission = NoHandle

\* C5 witness: two close() calls in a row, after a termination call failed.
C5_Witness ==
    /\ last.op = "close"
    /\ last.prev = "close"
    /\ \E i \in DOMAIN handles : handles[i].released = "closefail"

\* C6: with keep-alive set, close() on a held Handle clears the reference,
\* makes no termination call and leaves the instance running.
C6_KeepAliveNoTermination ==
    (last.op = "close" /\ config.keep_alive /\ last.pre # NoHandle) =>
        /\ drission = NoHandle
        /\ last.fx.terms = 0
        /\ handles[last.pre].live
        /\ handles[last.pre].released = "kept"

\* C6 witness: such a close() has happened.
C6_Witness ==
    /\ last.op = "close"
    /\ config.keep_alive
    /\ last.pre # NoHandle
    /\ handles[last.pre].live

\* The argument list args contains the flag f.
HasFlag(args, f) == \E i \in DOMAIN args : args[i] = f

RECURSIVE TermsUpTo(_)
TermsUpTo(n) == IF n = 0 THEN 0 ELSE handles[n].terms + TermsUpTo(n - 1)

\* C18: a Handle gets at most one termination call, made by the close()
\* that let go of it; close() without a Handle makes none; the termination
\* calls never outnumber the Handles obtained.
C18_TerminateOncePerHandle ==
    /\ \A i \in DOMAIN handles :
          /\ handles[i].terms <= 1
          /\ handles[i].terms = 1 =>
                i # drission /\ handles[i].released \in { "closed", "closefail" }
    /\ (last.op = "close" /\ last.pre = NoHandle) => last.fx.terms = 0
    /\ (last.op = "close" /\ last.fx.terms > 0) =>
          last.fx.terms = 1 /\ last.pre # NoHandle /\ handles[last.pre].terms = 1
    /\ TermsUpTo(Len(handles)) <= Len(handles)

\* C18 witness: close() after a close() whose termination call failed; the
\* Handle still has its single call.
C18_Witness ==
    /\ last.op = "close"
    /\ last.prev = "close"
    /\ last.pre = NoHandle
    /\ \E i \in DOMAIN handles :
          handles[i].released = "closefail" /\ handles[i].live /\ handles[i].terms = 1

\* C14 (as claimed): when an Acquirer that holds a Handle is finalised,
\* close is run or scheduled for it, with or without a running event loop,
\* and the finaliser does not raise.
C14_FinalizerTearsDown ==
    (fin.pc = "finalized" /\ fin.held # NoHandle) =>
        /\ fin.scheduled \/ fin.ran
        /\ fin.err = "none"

\* ====================================================================
\* Properties of reuse-or-launch (checked under SpecSetup)
\* ====================================================================

\* A reuse-or-launch acquisition has ended, and not by cancellation.
InstanceDone ==
    setup.pc = "done" /\ setup.mode = "instance" /\ setup.err # "CancelledError"

\* C7 (as claimed): when every probe succeeds, reuse-or-launch spawns no
\* process, probes once, never sleeps and makes one attach to the local
\* endpoint.
C7_ProbeOkNoSpawn ==
    (InstanceDone /\ setup.fails = 0) =>
        /\ setup.fx.spawns = 0
        /\ setup.fx.probes = 1
        /\ setup.sleeps = 0
        /\ setup.fx.connects = << LocalEndpoint >>

\* C8 (as claimed): when every probe fails, reuse-or-launch spawns exactly
\* one process, polls exactly 10 times after the spawn and raises the
\* launch-conflict error.
C8_AllFailConflict ==
    (InstanceDone /\ setup.fails = setup.fx.probes) =>
        /\ setup.fx.spawns = 1
        /\ setup.polls = 10
        /\ setup.err = "LaunchConflictError"

\* The probes made so far are what a probe that fails twice and then
\* succeeds would have answered.
FailTwiceThenOk ==
    \/ setup.fails = setup.fx.probes /\ setup.fx.probes <= 2
    \/ setup.fails = 2 /\ setup.fx.probes = 3 /\ setup.lastp = "ok200"

\* C9 (as claimed): with a probe that fails twice and then succeeds,
\* reuse-or-launch spawns one process, probes three times and returns a
\* Handle without error.
C9_FailTwiceThenOk ==
    (InstanceDone /\ FailTwiceThenOk) =>
        /\ setup.fx.spawns = 1
        /\ setup.fx.probes = 3
        /\ setup.err = "none"
        /\ setup.ret # NoHandle

\* C10 (as claimed): whenever the initial probe fails, by refusal or by
\* timeout, reuse-or-launch spawns exactly one process, with the executable
\* path, the port argument and the extra arguments in that order.
C10_ProbeFailureSpawns ==
    (InstanceDone /\ ~probe_success(setup.first)) =>
        /\ setup.fx.spawns = 1
        /\ setup.argv = << config.chrome_instance_path,
                           "--remote-debugging-port=9222" >>
                             \o config.extra_chromium_args

\* ====================================================================
\* Errors, cancellation and order of steps (checked under SpecSetup)
\* ====================================================================

\* Number of DrissionPage(...) calls the acquisition made.
LibraryCalls == Len(setup.fx.connects) + Len(setup.fx.launches)

\* C11 (as claimed): in the CDP, WSS and fresh-launch strategies the error
\* of the single connect/launch call reaches the caller as it is; only
\* reuse-or-launch replaces an attach error, and reuse-or-launch never
\* makes a second attach attempt.
C11_ErrorsUnmodified ==
    setup.pc = "done" =>
        /\ (setup.mode \in { "cdp", "wss", "standard" } /\ setup.lib # "none") =>
              setup.err = setup.lib /\ LibraryCalls = 1
        /\ (setup.lib # "none" /\ setup.err # setup.lib) => setup.mode = "instance"
        /\ setup.mode = "instance" => Len(setup.fx.connects) <= 1

\* The events of the acquisition.
Events == { setup.order[i] : i \in DOMAIN setup.order }

\* C12: a cancellation delivered in the polling sleep ends the acquisition
\* there: nothing is probed or attached after it, no Handle is produced, an
\* Acquirer that held no Handle holds none (so acquire would start anew),
\* and the next acquisition starts again from the initial probe.
C12_CancelStopsPolling ==
    /\ (setup.pc = "done" /\ "cancel" \in Events) =>
          /\ setup.err = "CancelledError"
          /\ setup.order[Len(setup.order)] = "cancel"
          /\ setup.order[Len(setup.order) - 1] = "sleep"
          /\ setup.ret = NoHandle
          /\ Len(handles) = setup.n0
          /\ setup.pre = NoHandle =>
                drission = NoHandle /\ ~acquire_reuses(drission)
    /\ (setup.after = "cancelled" /\ setup.pc # "idle") =>
          setup.order[1] = "probe"

\* C12 witness: after a cancelled acquisition the retry obtained a Handle.
C12_Witness ==
    /\ setup.after = "cancelled"
    /\ setup.pc = "done"
    /\ setup.pre = NoHandle
    /\ setup.ret # NoHandle
    /\ drission = setup.ret

\* Position of the spawn among the events of the acquisition.
SpawnAt == CHOOSE i \in DOMAIN setup.order : setup.order[i] = "spawn"

\* The attach attempts made after the spawn.
AttachesAfterSpawn ==
    { i \in DOMAIN setup.order : i > SpawnAt /\ setup.order[i] = "attach" }

\* C16 (as claimed): once reuse-or-launch has spawned, it polls 1 to 10
\* times and then makes exactly one attach attempt, which is its last step;
\* the launch-conflict error is raised exactly when that attempt fails.
C16_SpawnPollAttach ==
    (InstanceDone /\ setup.fx.spawns >= 1) =>
        /\ setup.fx.spawns = 1
        /\ setup.polls \in 1..10
        /\ Cardinality(AttachesAfterSpawn) = 1
        /\ setup.order[Len(setup.order)] = "attach"
        /\ (setup.err = "LaunchConflictError") <=> (setup.ret = NoHandle)

\* C17: an acquisition that starts without a Handle and ends with an error
\* leaves the Acquirer without a Handle and creates none; the acquisition
\* after a failed one makes its own attempt and returns either nothing or a
\* Handle created by that attempt.
C17_FailureLeavesNoHandle ==
    /\ (setup.pc = "done" /\ setup.err # "none" /\ setup.pre = NoHandle) =>
          /\ drission = NoHandle
          /\ setup.ret = NoHandle
          /\ Len(handles) = setup.n0
    /\ (setup.pc = "done" /\ setup.after = "raised") =>
          /\ LibraryCalls + setup.fx.probes >= 1
          /\ setup.ret = NoHandle \/ setup.ret = setup.n0 + 1

\* C17 witness: the acquisition after a failed one obtained a new Handle.
C17_Witness ==
    /\ setup.pc = "done"
    /\ setup.after = "raised"
    /\ setup.pre = NoHandle
    /\ setup.ret = setup.n0 + 1
    /\ drission = setup.ret

\* ====================================================================
\* Concurrent acquisitions (checked under SpecPair and SpecOverlap)
\* ====================================================================

\* The processes an acquisition spawns when it runs alone on the host.
AloneSpawns == IF env0 = "ready" THEN 0 ELSE 1

\* An acquisition that is the only one started spawns AloneSpawns processes.
AloneOutcome ==
    \A t \in Tasks :
        (tasks[t].pc = "done" /\ \A u \in Tasks \ { t } : tasks[u].pc = "idle") =>
            tasks[t].spawns = AloneSpawns

\* C13 (as claimed): with two independent Acquirers, each one spawns as
\* many processes as it does when it runs alone from the same environment.
C13_SameAsAlone ==
    \A t \in Tasks : tasks[t].pc = "done" => tasks[t].spawns = AloneSpawns

\* Both acquisitions on the Acquirer have ended and one of them started
\* while the other was in its polling sleep.
OverlapDone ==
    /\ \A t \in Tasks : tasks[t].pc = "done"
    /\ \E t \in Tasks : tasks[t].overlap

\* The larger of two Handle indices: the Handle created last.
Later(a, b) == IF a >= b THEN a ELSE b

\* C19 (as claimed): two overlapping acquisitions on one Acquirer spawn at
\* most one process together and return the same Handle.
C19_OverlapOneSpawn ==
    OverlapDone =>
        /\ tasks[1].spawns + tasks[2].spawns <= 1
        /\ tasks[1].ret = tasks[2].ret

\* C19 (amended): each of two overlapping acquisitions spawns at most one
\* process, a successful one returns the Handle its own attach created (two
\* successes give two different Handles), and the Acquirer ends up holding
\* the Handle created last.
C19_OverlapLastWins ==
    OverlapDone =>
        /\ \A t \in Tasks :
              /\ tasks[t].spawns <= 1
              /\ tasks[t].err = "none" <=> tasks[t].ret # NoHandle
        /\ tasks[1].ret # NoHandle => tasks[1].ret # tasks[2].ret
        /\ held[1] = Later(tasks[1].ret, tasks[2].ret)

\* C19 witness: both overlapping acquisitions spawned and both returned a
\* Handle; the first of the two Handles is no longer held.
C19_Witness ==
    /\ OverlapDone
    /\ tasks[1].spawns + tasks[2].spawns = 2
    /\ tasks[1].ret # NoHandle
    /\ tasks[2].ret # NoHandle
    /\ held[1] = 2

====
